---- MODULE Spec2Model ----
\* Model of rmw_fastrtps:
\*   rmw_fastrtps_cpp/src/subscription.cpp            create_subscription
\*   rmw_fastrtps_shared_cpp/src/rmw_node_info_and_types.cpp   graph queries by node
\*
\* C strings are sequences of tokens; a `const char *` is <<>> (null) or <<s>>
\* (a pointer to the string s).  Object pointers are natural numbers, 0 is null.
\* Every object a create_subscription call allocates carries the number of the
\* call as its address, so "allocated by this call" is a comparison of numbers.
EXTENDS Integers, Sequences, FiniteSets, TLC

\* ---------------------------------------------------------------- bounds
MaxCalls == 2

Threads == {1, 2}
Ids == 1..MaxCalls

\* ---------------------------------------------------------------- values
NullPtr == 0
NullStr == <<>>
Str(s) == <<s>>

eprosima_fastrtps_identifier == "rmw_fastrtps_cpp"
RMW_FASTRTPS_CPP_TYPESUPPORT_C == "rosidl_typesupport_fastrtps_c"
RMW_FASTRTPS_CPP_TYPESUPPORT_CPP == "rosidl_typesupport_fastrtps_cpp"
ros_topic_prefix == <<"rt">>

\* message_type_support_callbacks_t of the messages callers subscribe to
String_callbacks ==
  [message_namespace_ |-> <<"std_msgs", "::", "msg">>, message_name_ |-> "String"]
Int32_callbacks ==
  [message_namespace_ |-> <<"std_msgs", "::", "msg">>, message_name_ |-> "Int32"]
Callbacks == { String_callbacks, Int32_callbacks }

\* _create_type_name: "<namespace>::dds_::<name>_"
_create_type_name(callbacks) ==
  callbacks.message_namespace_ \o <<"::", "dds_", "::", callbacks.message_name_, "_">>

TypeNames == { _create_type_name(cb) : cb \in Callbacks }

\* _create_topic_name: the ROS prefix is prepended unless the QoS asks to avoid
\* the ROS namespace conventions
_create_topic_name(qos, prefix, base) ==
  IF qos.avoid_ros_namespace_conventions THEN base ELSE prefix \o base

\* ---------------------------------------------------------------- inputs
TopicArgs == { NullStr, Str(<<>>), Str(<<"/", "chatter">>) }

\* qos_policies: null, or a profile.  `kind` is what the two external QoS
\* checks say of it: "invalid" fails is_valid_qos, "untranslatable" passes it
\* and fails get_datareader_qos.
QosProfiles ==
  { [kind |-> k, avoid_ros_namespace_conventions |-> a] :
      k \in {"ok", "invalid", "untranslatable"}, a \in {FALSE} }
QosArgs == { <<>> } \cup { <<q>> : q \in QosProfiles }

\* subscription_options: null, or a value
OptionsArgs == { <<>>, <<"ignore_local_publications">> }

\* type_supports: a handle of one type-support convention for one message
TypeSupportArgs ==
  { [typesupport_identifier |-> RMW_FASTRTPS_CPP_TYPESUPPORT_C, data |-> String_callbacks],
    [typesupport_identifier |-> RMW_FASTRTPS_CPP_TYPESUPPORT_CPP, data |-> Int32_callbacks],
    [typesupport_identifier |-> "rosidl_typesupport_introspection_c",
     data |-> String_callbacks] }

\* participant_info: null, or a record whose participant handle may be null
ParticipantInfoArgs ==
  { <<>>, <<[participant |-> 0, leave_middleware_default_qos |-> FALSE]>>,
          <<[participant |-> 1, leave_middleware_default_qos |-> FALSE]>> }

Args ==
  [ participant_info : ParticipantInfoArgs,
    type_supports : TypeSupportArgs,
    topic_name : TopicArgs,
    qos_policies : QosArgs,
    subscription_options : OptionsArgs,
    keyed : {FALSE},
    create_subscription_listener : BOOLEAN ]

\* ---------------------------------------------------------------- state
VARIABLES
  pc,          \* pc[t]: where thread t is inside create_subscription
  loc,         \* loc[t]: arguments and locals of thread t's call
  ncalls,      \* calls started so far
  registry,    \* the participant's registered types: type name -> adapter or 0
  adapters,    \* adapters[i]: "none" | "live" | "deleted"  (MessageTypeSupport_cpp)
  infos,       \* infos[i]: NoObj | Deleted | a CustomSubscriberInfo record
  listeners,   \* listeners[i]: "none" | "live" | "deleted" (SubListener)
  readers,     \* readers[i]: NoObj | a transport reader record
  handles,     \* handles[i]: NoObj | Deleted | an rmw_subscription_t record
  constructed, \* constructed[n]: adapters ever constructed for type name n
  registered,  \* registered[n]: _register_type calls ever made for type name n
  last_error,  \* the last-error slot: <<>> or <<message>>
  query        \* the last graph query: its arguments, what it did, what it returned

vars == <<pc, loc, ncalls, registry, adapters, infos, listeners, readers, handles,
          constructed, registered, last_error, query>>

creation == <<pc, loc, ncalls, registry, adapters, infos, listeners, readers, handles,
              constructed, registered>>

heap == <<adapters, infos, listeners, readers, handles>>

NoObj == [state |-> "none"]
Deleted == [state |-> "deleted"]
NoCall == [id |-> 0]
NoQuery == [entry |-> "none"]

\* ---------------------------------------------------------------- helpers
IsNull(p) == p = <<>>
Deref(p) == p[1]
strlen(s) == Len(s)

\* get_message_typesupport_handle: the handle itself when it is of the asked
\* convention, null otherwise
get_message_typesupport_handle(type_supports, identifier) ==
  IF type_supports.typesupport_identifier = identifier THEN <<type_supports>> ELSE <<>>

\* the type support create_subscription settles on (lines 79-88): the C
\* convention first, then the C++ one
SelectTypeSupport(type_supports) ==
  IF ~IsNull(get_message_typesupport_handle(type_supports, RMW_FASTRTPS_CPP_TYPESUPPORT_C))
    THEN get_message_typesupport_handle(type_supports, RMW_FASTRTPS_CPP_TYPESUPPORT_C)
    ELSE get_message_typesupport_handle(type_supports, RMW_FASTRTPS_CPP_TYPESUPPORT_CPP)

\* external QoS checks, by what they answer
is_valid_qos(qos) == qos.kind # "invalid"
get_datareader_qos(qos) == qos.kind = "ok"

\* FirstInvalid without the QoS validity check of line 89
FirstInvalid_NoQosCheck(a) ==
  CASE IsNull(a.topic_name) \/ strlen(Deref(a.topic_name)) = 0 -> "topic_name"
    [] IsNull(a.qos_policies) -> "qos_policies"
    [] IsNull(a.subscription_options) -> "subscription_options"
    [] IsNull(a.participant_info) -> "participant_info"
    [] Deref(a.participant_info).participant = NullPtr -> "participant"
    [] IsNull(SelectTypeSupport(a.type_supports)) -> "type_support"
    [] OTHER -> "ok"

\* The first validation of create_subscription that rejects the arguments, in
\* the order of the code (lines 58-91); "ok" when none does.
FirstInvalid(a) ==
  CASE IsNull(a.topic_name) \/ strlen(Deref(a.topic_name)) = 0 -> "topic_name"
    [] IsNull(a.qos_policies) -> "qos_policies"
    [] IsNull(a.subscription_options) -> "subscription_options"
    [] IsNull(a.participant_info) -> "participant_info"
    [] Deref(a.participant_info).participant = NullPtr -> "participant"
    [] IsNull(SelectTypeSupport(a.type_supports)) -> "type_support"
    [] ~is_valid_qos(Deref(a.qos_policies)) -> "is_valid_qos"
    [] OTHER -> "ok"

ValidationFailures ==
  { "topic_name", "qos_policies", "subscription_options", "participant_info",
    "participant", "type_support", "is_valid_qos" }

\* What is wrong with the arguments, each condition on its own (not in the
\* order of the code): the invalid inputs a call was given.
InvalidInputs(a) ==
  { r \in ValidationFailures :
      \/ r = "topic_name" /\ (IsNull(a.topic_name) \/ Deref(a.topic_name) = <<>>)
      \/ r = "qos_policies" /\ IsNull(a.qos_policies)
      \/ r = "subscription_options" /\ IsNull(a.subscription_options)
      \/ r = "participant_info" /\ IsNull(a.participant_info)
      \/ r = "participant" /\ ~IsNull(a.participant_info)
           /\ Deref(a.participant_info).participant = NullPtr
      \/ r = "type_support"
           /\ a.type_supports.typesupport_identifier
                \notin {RMW_FASTRTPS_CPP_TYPESUPPORT_C, RMW_FASTRTPS_CPP_TYPESUPPORT_CPP}
      \/ r = "is_valid_qos" /\ ~IsNull(a.qos_policies)
           /\ Deref(a.qos_policies).kind = "invalid" }

\* the message is_valid_qos leaves in the last-error slot when it answers false
is_valid_qos_error_msg == <<"invalid QoS policies">>

\* ErrorMsg without the message of line 151
ErrorMsg_NoMsgForAllocate(failed_at) ==
  CASE failed_at = "topic_name" -> <<"subscription topic is null or empty string">>
    [] failed_at = "qos_policies" -> <<"qos_policies is null">>
    [] failed_at = "subscription_options" -> <<"subscription_options is null">>
    [] failed_at = "participant_info" -> <<"participant_info is null">>
    [] failed_at = "participant" -> <<"participant handle is null">>
    [] failed_at = "type_support" -> <<"type support not from this implementation">>
    [] failed_at = "is_valid_qos" -> is_valid_qos_error_msg
    [] failed_at = "new_info" -> <<"failed to allocate CustomSubscriberInfo">>
    [] failed_at = "new_type_support" -> <<"failed to allocate MessageTypeSupport_cpp">>
    [] failed_at = "get_datareader_qos" -> <<"failed to get datareader qos">>
    [] failed_at = "new_listener" ->
         <<"create_subscriber() could not create subscriber listener">>
    [] failed_at = "createSubscriber" -> <<"create_subscriber() could not create subscriber">>
    [] failed_at = "rcutils_strdup" ->
         <<"failed to allocate memory for subscription topic name">>
    [] OTHER -> <<>>

\* RMW_SET_ERROR_MSG of each failing return of create_subscription; the return
\* after is_valid_qos (line 90) sets none itself: the slot holds what
\* is_valid_qos left in it
ErrorMsg(failed_at) ==
  CASE failed_at = "topic_name" -> <<"subscription topic is null or empty string">>
    [] failed_at = "qos_policies" -> <<"qos_policies is null">>
    [] failed_at = "subscription_options" -> <<"subscription_options is null">>
    [] failed_at = "participant_info" -> <<"participant_info is null">>
    [] failed_at = "participant" -> <<"participant handle is null">>
    [] failed_at = "type_support" -> <<"type support not from this implementation">>
    [] failed_at = "is_valid_qos" -> is_valid_qos_error_msg
    [] failed_at = "new_info" -> <<"failed to allocate CustomSubscriberInfo">>
    [] failed_at = "new_type_support" -> <<"failed to allocate MessageTypeSupport_cpp">>
    [] failed_at = "get_datareader_qos" -> <<"failed to get datareader qos">>
    [] failed_at = "new_listener" ->
         <<"create_subscriber() could not create subscriber listener">>
    [] failed_at = "createSubscriber" -> <<"create_subscriber() could not create subscriber">>
    [] failed_at = "rmw_subscription_allocate" -> <<"failed to allocate subscription">>
    [] failed_at = "rcutils_strdup" ->
         <<"failed to allocate memory for subscription topic name">>
    [] OTHER -> <<>>

SetError(failed_at) ==
  IF ErrorMsg(failed_at) = <<>> THEN last_error ELSE ErrorMsg(failed_at)

\* Domain::getRegisteredType: the adapter registered under the type name, or
\* null when the name is not registered.  The participant keeps the adapter
\* objects it was given (line 118 hands it nothing else) and reads the names
\* from them: once a registered adapter has been deleted the lookup reads a
\* deleted object, and may find the name or not.  The set of possible results.
getRegisteredType(reg, ads, type_name) ==
  IF reg[type_name] = NullPtr THEN {NullPtr}
  ELSE IF ads[reg[type_name]] = "deleted" THEN {reg[type_name], NullPtr}
  ELSE {reg[type_name]}

\* _register_type / Domain::registerType: a name registers once; registering a
\* name that is registered already changes nothing.  The same comparison of
\* names reads a deleted adapter when the registered one was deleted: the new
\* adapter may then be refused or take the name.  The set of possible registries.
RegisterType(reg, ads, type_name, type_support) ==
  IF reg[type_name] = NullPtr THEN {[reg EXCEPT ![type_name] = type_support]}
  ELSE IF ads[reg[type_name]] = "deleted"
    THEN {reg, [reg EXCEPT ![type_name] = type_support]}
  ELSE {reg}

\* `delete p` on an adapter or a listener pointer
DeleteIn(objs, p) == IF p = NullPtr THEN objs ELSE [objs EXCEPT ![p] = "deleted"]

\* ---------------------------------------------------------------- Init
Init ==
  /\ pc = [t \in Threads |-> "idle"]
  /\ loc = [t \in Threads |-> NoCall]
  /\ ncalls = 0
  /\ registry = [n \in TypeNames |-> NullPtr]
  /\ adapters = [i \in Ids |-> "none"]
  /\ infos = [i \in Ids |-> NoObj]
  /\ listeners = [i \in Ids |-> "none"]
  /\ readers = [i \in Ids |-> NoObj]
  /\ handles = [i \in Ids |-> NoObj]
  /\ constructed = [n \in TypeNames |-> 0]
  /\ registered = [n \in TypeNames |-> 0]
  /\ last_error = <<>>
  /\ query = NoQuery

\* ---------------------------------------------------------------- create_subscription
\* A call that ends with `return nullptr` / `return rmw_subscription`
Returns(t, l) ==
  /\ pc' = [pc EXCEPT ![t] = "returned"]
  /\ loc' = [loc EXCEPT ![t] = l]
  /\ query' = query

\* A call that goes on to the step `label`
Goto(t, label, l) ==
  /\ pc' = [pc EXCEPT ![t] = label]
  /\ loc' = [loc EXCEPT ![t] = l]
  /\ query' = query

\* lines 58-107: argument validation, then the metadata record.  The caller
\* has taken the result of its last graph query before it calls.
Enter(t, a) ==
  /\ pc[t] = "idle"
  /\ query = NoQuery
  /\ ncalls < MaxCalls
  /\ ncalls' = ncalls + 1
  /\ LET id == ncalls + 1
         rejected == [id |-> id, invalid |-> InvalidInputs(a),
                      failed_at |-> FirstInvalid(a), result |-> NullPtr,
                      info |-> NullPtr, rmw_subscription |-> NullPtr]
     IN IF FirstInvalid(a) # "ok"
          THEN /\ Returns(t, rejected)
               /\ last_error' = SetError(FirstInvalid(a))
               /\ UNCHANGED <<registry, heap, constructed, registered>>
          ELSE \E ok \in BOOLEAN :
                 IF ~ok
                   THEN \* new (std::nothrow) CustomSubscriberInfo() gave null
                        /\ Returns(t, [rejected EXCEPT !.failed_at = "new_info"])
                        /\ last_error' = SetError("new_info")
                        /\ UNCHANGED <<registry, heap, constructed, registered>>
                   ELSE /\ infos' = [infos EXCEPT ![id] =
                              [state |-> "live",
                               typesupport_identifier_ |->
                                 Deref(SelectTypeSupport(a.type_supports)).typesupport_identifier,
                               type_support_impl_ |->
                                 Deref(SelectTypeSupport(a.type_supports)).data,
                               type_support_ |-> NullPtr,
                               listener_ |-> NullPtr,
                               subscriber_ |-> NullPtr,
                               subscription_gid_ |-> <<>>]]
                        /\ Goto(t, "getRegisteredType",
                                [id |-> id, invalid |-> InvalidInputs(a), failed_at |-> "",
                                 result |-> NullPtr, info |-> id,
                                 rmw_subscription |-> NullPtr,
                                 args |-> a,
                                 type_name |-> _create_type_name(
                                   Deref(SelectTypeSupport(a.type_supports)).data),
                                 hit |-> "unknown",
                                 subscriberParam |-> <<>>])
                        /\ UNCHANGED <<registry, adapters, listeners, readers, handles,
                                       constructed, registered, last_error>>

\* lines 108-112: Domain::getRegisteredType writes the registered adapter into
\* info->type_support_ on a hit
GetRegisteredType(t) ==
  /\ pc[t] = "getRegisteredType"
  /\ LET l == loc[t]
     IN \E found \in getRegisteredType(registry, adapters, l.type_name) :
          IF found # NullPtr
            THEN /\ infos' = [infos EXCEPT ![l.info].type_support_ = found]
                 /\ Goto(t, "get_datareader_qos", [l EXCEPT !.hit = "hit"])
            ELSE /\ infos' = infos
                 /\ Goto(t, "new_type_support", [l EXCEPT !.hit = "miss"])
  /\ UNCHANGED <<ncalls, registry, adapters, listeners, readers, handles,
                 constructed, registered, last_error>>

\* lines 113-118: on a miss, construct the adapter and register it
NewTypeSupport(t) ==
  /\ pc[t] = "new_type_support"
  /\ LET l == loc[t]
     IN \E ok \in BOOLEAN :
          IF ~ok
            THEN /\ Goto(t, "fail", [l EXCEPT !.failed_at = "new_type_support"])
                 /\ last_error' = SetError("new_type_support")
                 /\ UNCHANGED <<registry, adapters, infos, constructed, registered>>
            ELSE /\ adapters' = [adapters EXCEPT ![l.id] = "live"]
                 /\ infos' = [infos EXCEPT ![l.info].type_support_ = l.id]
                 /\ constructed' = [constructed EXCEPT ![l.type_name] = @ + 1]
                 /\ registered' = [registered EXCEPT ![l.type_name] = @ + 1]
                 /\ registry' \in RegisterType(registry, adapters, l.type_name, l.id)
                 /\ Goto(t, "get_datareader_qos", l)
                 /\ last_error' = last_error
  /\ UNCHANGED <<ncalls, listeners, readers, handles>>

\* lines 120-128: the reader attributes of the call
SubscriberParam(a, type_name) ==
  [ historyMemoryPolicy |->
      IF ~Deref(a.participant_info).leave_middleware_default_qos
        THEN "PREALLOCATED_WITH_REALLOC_MEMORY_MODE" ELSE "default",
    topicKind |-> IF a.keyed THEN "WITH_KEY" ELSE "NO_KEY",
    topicDataType |-> type_name,
    topicName |-> _create_topic_name(Deref(a.qos_policies), ros_topic_prefix,
                                     Deref(a.topic_name)) ]

\* GetDatareaderQos without the `goto fail` of line 132: the error is set and
\* the call goes on
GetDatareaderQos_NoGotoFail(t) ==
  /\ pc[t] = "get_datareader_qos"
  /\ LET l == loc[t]
         param == <<SubscriberParam(l.args, l.type_name)>>
     IN IF ~get_datareader_qos(Deref(l.args.qos_policies))
          THEN /\ Goto(t, "new_listener", [l EXCEPT !.failed_at = "get_datareader_qos",
                                                    !.subscriberParam = param])
               /\ last_error' = SetError("get_datareader_qos")
          ELSE /\ Goto(t, "new_listener", [l EXCEPT !.subscriberParam = param])
               /\ last_error' = last_error
  /\ UNCHANGED <<ncalls, registry, heap, constructed, registered>>

\* lines 120-133: reader attributes and QoS translation
GetDatareaderQos(t) ==
  /\ pc[t] = "get_datareader_qos"
  /\ LET l == loc[t]
         param == <<SubscriberParam(l.args, l.type_name)>>
     IN IF ~get_datareader_qos(Deref(l.args.qos_policies))
          THEN /\ Goto(t, "fail", [l EXCEPT !.failed_at = "get_datareader_qos",
                                            !.subscriberParam = param])
               /\ last_error' = SetError("get_datareader_qos")
          ELSE /\ Goto(t, "new_listener", [l EXCEPT !.subscriberParam = param])
               /\ last_error' = last_error
  /\ UNCHANGED <<ncalls, registry, heap, constructed, registered>>

\* lines 134-141: the listener, when asked for
NewSubListener(t) ==
  /\ pc[t] = "new_listener"
  /\ LET l == loc[t]
     IN IF l.args.create_subscription_listener
          THEN \E ok \in BOOLEAN :
                 IF ~ok
                   THEN /\ Goto(t, "fail", [l EXCEPT !.failed_at = "new_listener"])
                        /\ last_error' = SetError("new_listener")
                        /\ UNCHANGED <<infos, listeners>>
                   ELSE /\ listeners' = [listeners EXCEPT ![l.id] = "live"]
                        /\ infos' = [infos EXCEPT ![l.info].listener_ = l.id]
                        /\ Goto(t, "createSubscriber", l)
                        /\ last_error' = last_error
          ELSE /\ Goto(t, "createSubscriber", l)
               /\ UNCHANGED <<infos, listeners, last_error>>
  /\ UNCHANGED <<ncalls, registry, adapters, readers, handles, constructed, registered>>

\* lines 142-148: the transport reader and its gid
CreateSubscriber(t) ==
  /\ pc[t] = "createSubscriber"
  /\ LET l == loc[t]
     IN \E ok \in BOOLEAN :
          IF ~ok
            THEN /\ Goto(t, "fail", [l EXCEPT !.failed_at = "createSubscriber"])
                 /\ last_error' = SetError("createSubscriber")
                 /\ UNCHANGED <<infos, readers>>
            ELSE /\ readers' = [readers EXCEPT ![l.id] =
                       [state |-> "live",
                        attributes |-> Deref(l.subscriberParam),
                        listener |-> infos[l.info].listener_]]
                 /\ infos' = [infos EXCEPT ![l.info].subscriber_ = l.id,
                                           ![l.info].subscription_gid_ =
                                              <<eprosima_fastrtps_identifier, l.id>>]
                 /\ Goto(t, "rmw_subscription_allocate", l)
                 /\ last_error' = last_error
  /\ UNCHANGED <<ncalls, registry, adapters, listeners, handles, constructed, registered>>

\* lines 149-155: the caller's handle
SubscriptionAllocate(t) ==
  /\ pc[t] = "rmw_subscription_allocate"
  /\ LET l == loc[t]
     IN \E ok \in BOOLEAN :
          IF ~ok
            THEN /\ Goto(t, "fail", [l EXCEPT !.failed_at = "rmw_subscription_allocate"])
                 /\ last_error' = SetError("rmw_subscription_allocate")
                 /\ handles' = handles
            ELSE /\ handles' = [handles EXCEPT ![l.id] =
                       [state |-> "live",
                        implementation_identifier |-> eprosima_fastrtps_identifier,
                        data |-> l.info,
                        topic_name |-> NullStr,
                        options |-> <<>>]]
                 /\ Goto(t, "rcutils_strdup", [l EXCEPT !.rmw_subscription = l.id])
                 /\ last_error' = last_error
  /\ UNCHANGED <<ncalls, registry, adapters, infos, listeners, readers,
                 constructed, registered>>

\* lines 156-163: the handle's own copy of the topic name, then the options
CopyTopicName(t) ==
  /\ pc[t] = "rcutils_strdup"
  /\ LET l == loc[t]
     IN \E ok \in BOOLEAN :
          IF ~ok
            THEN /\ Goto(t, "fail", [l EXCEPT !.failed_at = "rcutils_strdup"])
                 /\ last_error' = SetError("rcutils_strdup")
                 /\ handles' = handles
            ELSE /\ handles' = [handles EXCEPT
                       ![l.rmw_subscription].topic_name = l.args.topic_name,
                       ![l.rmw_subscription].options = l.args.subscription_options]
                 /\ Returns(t, [l EXCEPT !.result = l.rmw_subscription])
                 /\ last_error' = last_error
  /\ UNCHANGED <<ncalls, registry, adapters, infos, listeners, readers,
                 constructed, registered>>

\* line 167: the adapter the fail label deletes
FailDeletedTypeSupport(info) == info.type_support_

\* lines 165-172: the fail label
Fail(t) ==
  /\ pc[t] = "fail"
  /\ LET l == loc[t]
         info == infos[l.info]
     IN /\ adapters' = DeleteIn(adapters, FailDeletedTypeSupport(info))
        /\ listeners' = DeleteIn(listeners, info.listener_)
        /\ infos' = [infos EXCEPT ![l.info] = Deleted]
        /\ handles' = IF l.rmw_subscription = NullPtr THEN handles
                      ELSE [handles EXCEPT ![l.rmw_subscription] = Deleted]
        /\ Returns(t, [l EXCEPT !.result = NullPtr])
  /\ UNCHANGED <<ncalls, registry, readers, constructed, registered, last_error>>

\* the caller takes the result, reads and clears the last-error slot
Return(t) ==
  /\ pc[t] = "returned"
  /\ pc' = [pc EXCEPT ![t] = "idle"]
  /\ loc' = [loc EXCEPT ![t] = NoCall]
  /\ last_error' = <<>>
  /\ UNCHANGED <<ncalls, registry, heap, constructed, registered, query>>

Step(t) ==
  \/ \E a \in Args : Enter(t, a)
  \/ GetRegisteredType(t)
  \/ NewTypeSupport(t)
  \/ GetDatareaderQos(t)
  \/ NewSubListener(t)
  \/ CreateSubscriber(t)
  \/ SubscriptionAllocate(t)
  \/ CopyTopicName(t)
  \/ Fail(t)
  \/ Return(t)

\* one caller: calls follow one another
Next == Step(1)

Spec == Init /\ [][Next]_vars

\* two callers on the same participant, their steps interleaved
ConcNext == \E t \in Threads : Step(t)

ConcSpec == Init /\ [][ConcNext]_vars

\* ---------------------------------------------------------------- graph queries
RMW_RET_OK == "RMW_RET_OK"
RMW_RET_ERROR == "RMW_RET_ERROR"
RMW_RET_INVALID_ARGUMENT == "RMW_RET_INVALID_ARGUMENT"

\* the first position of token tok in s, 0 when it is absent (std::string::find)
Find(s, tok) ==
  IF \E i \in 1..Len(s) : s[i] = tok
    THEN CHOOSE i \in 1..Len(s) : s[i] = tok /\ \A j \in 1..(i - 1) : s[j] # tok
    ELSE 0

\* "::" becomes "/" (the namespace separator of ROS type names)
ColonsToSlashes(s) == [i \in 1..Len(s) |-> IF s[i] = "::" THEN "/" ELSE s[i]]

\* _resolve_prefix: the name without the prefix, when the prefix is there and
\* a "/" follows it; the empty string otherwise
_resolve_prefix(name, prefix) ==
  IF Len(name) >= 2 /\ name[1] = prefix[1] /\ name[2] = "/"
    THEN SubSeq(name, 2, Len(name)) ELSE <<>>

_identity_demangle(name) == name

_demangle_ros_topic_from_topic(topic_name) == _resolve_prefix(topic_name, ros_topic_prefix)

\* _demangle_service_from_topic: prefix and trailing suffix stripped; the empty
\* string when either is missing or the suffix is not at the end
_demangle_service_from_topic(prefix, topic_name, suffix) ==
  LET service_name == _resolve_prefix(topic_name, prefix)
  IN IF service_name = <<>> THEN <<>>
     ELSE IF Find(service_name, suffix) = 0 THEN <<>>
     ELSE IF Find(service_name, suffix) # Len(service_name) THEN <<>>
     ELSE SubSeq(service_name, 1, Len(service_name) - 1)

_demangle_service_request_from_topic(topic_name) ==
  _demangle_service_from_topic(<<"rq">>, topic_name, "Request")

_demangle_service_reply_from_topic(topic_name) ==
  _demangle_service_from_topic(<<"rr">>, topic_name, "Reply")

\* _demangle_if_ros_type: "a::b::dds_::T_" becomes "a/b/T"; a type name that
\* is not of that form is returned as it is
_demangle_if_ros_type(dds_type_string) ==
  LET n == Len(dds_type_string)
      at == Find(dds_type_string, "dds_")
  IN IF n = 0 \/ dds_type_string[n] # "_" THEN dds_type_string
     ELSE IF at = 0 \/ at + 1 > n \/ dds_type_string[at + 1] # "::" THEN dds_type_string
     ELSE ColonsToSlashes(SubSeq(dds_type_string, 1, at - 1))
            \o SubSeq(dds_type_string, at + 2, n - 1)

\* _demangle_service_type_only: "a::srv::dds_::T_Request_" (or _Response_)
\* becomes "a/srv/T"; the empty string for any other type name
_demangle_service_type_only(dds_type_name) ==
  LET n == Len(dds_type_name)
      at == Find(dds_type_name, "dds_")
  IN IF at = 0 \/ at + 1 > n \/ dds_type_name[at + 1] # "::" THEN <<>>
     ELSE IF dds_type_name[n] \notin {"_Request_", "_Response_"} THEN <<>>
     ELSE ColonsToSlashes(SubSeq(dds_type_name, 1, at - 1))
            \o SubSeq(dds_type_name, at + 2, n - 1)

\* a DemangleFunction pointer is the name of the function; calling through it
Demangle(f, name) ==
  CASE f = "_identity_demangle" -> _identity_demangle(name)
    [] f = "_demangle_ros_topic_from_topic" -> _demangle_ros_topic_from_topic(name)
    [] f = "_demangle_if_ros_type" -> _demangle_if_ros_type(name)
    [] f = "_demangle_service_request_from_topic" ->
         _demangle_service_request_from_topic(name)
    [] f = "_demangle_service_reply_from_topic" -> _demangle_service_reply_from_topic(name)
    [] f = "_demangle_service_type_only" -> _demangle_service_type_only(name)

\* The shared graph index as a query finds it: the nodes it knows, the readers
\* and the writers of each, and whether filling an output container fails.
talker == <<<<"talker">>, <<"/">>>>
chatter_type == <<"std_msgs", "::", "msg", "::", "dds_", "::", "String", "_">>
request_type ==
  <<"example_interfaces", "::", "srv", "::", "dds_", "::", "AddTwoInts", "_Request_">>
response_type ==
  <<"example_interfaces", "::", "srv", "::", "dds_", "::", "AddTwoInts", "_Response_">>

Graph ==
  [ nodes |-> {talker},
    readers |->
      { [node |-> talker, topic |-> <<"rt", "/", "chatter">>, type |-> chatter_type],
        [node |-> talker, topic |-> <<"rq", "/", "add_two_ints", "Request">>,
         type |-> request_type],
        [node |-> talker, topic |-> <<"rr", "/", "sum", "Reply">>, type |-> response_type],
        [node |-> talker, topic |-> <<"raw_topic">>, type |-> <<"RawType">>] },
    writers |->
      { [node |-> talker, topic |-> <<"rt", "/", "rosout">>, type |-> chatter_type],
        [node |-> talker, topic |-> <<"rr", "/", "add_two_ints", "Reply">>,
         type |-> response_type] } ]

EmptyGraph == [nodes |-> {}, readers |-> {}, writers |-> {}]

Contexts == [graph_cache : {Graph, EmptyGraph}, fails : BOOLEAN]

\* the message the index leaves in the last-error slot with a failure of its own
index_error_msg(ret) == <<"graph cache", ret>>

\* graph_cache.get_{reader,writer}_names_and_types_by_node over the entries of
\* one side: the names the topic demangler accepts, each with its demangled types
get_names_and_types_by_node(entries, common_context, node_name, node_namespace, demangle_topic, demangle_type, topic_names_and_types) ==
  IF <<node_name, node_namespace>> \notin common_context.graph_cache.nodes
    THEN [ret |-> "RMW_RET_NODE_NAME_NON_EXISTENT", out |-> topic_names_and_types,
          msg |-> index_error_msg("RMW_RET_NODE_NAME_NON_EXISTENT")]
  ELSE IF common_context.fails
    THEN [ret |-> "RMW_RET_BAD_ALLOC", out |-> topic_names_and_types,
          msg |-> index_error_msg("RMW_RET_BAD_ALLOC")]
  ELSE [ret |-> RMW_RET_OK, msg |-> <<>>,
        out |-> << { <<Demangle(demangle_topic, e.topic), Demangle(demangle_type, e.type)>> :
                       e \in { x \in entries :
                                 /\ x.node = <<node_name, node_namespace>>
                                 /\ Demangle(demangle_topic, x.topic) # <<>> } } >>]

\* lines 139-156
__get_reader_names_and_types_by_node(common_context, node_name, node_namespace, demangle_topic, demangle_type, allocator, topic_names_and_types) ==
  get_names_and_types_by_node(common_context.graph_cache.readers, common_context,
                              node_name, node_namespace, demangle_topic, demangle_type,
                              topic_names_and_types)

\* lines 158-175
__get_writer_names_and_types_by_node(common_context, node_name, node_namespace, demangle_topic, demangle_type, allocator, topic_names_and_types) ==
  get_names_and_types_by_node(common_context.graph_cache.writers, common_context,
                              node_name, node_namespace, demangle_topic, demangle_type,
                              topic_names_and_types)

\* a GetNamesAndTypesByNodeFunction pointer is the name of the function
CallAccessor(f, common_context, node_name, node_namespace, demangle_topic, demangle_type, allocator, topic_names_and_types) ==
  CASE f = "__get_reader_names_and_types_by_node" ->
         __get_reader_names_and_types_by_node(common_context, node_name, node_namespace,
           demangle_topic, demangle_type, allocator, topic_names_and_types)
    [] f = "__get_writer_names_and_types_by_node" ->
         __get_writer_names_and_types_by_node(common_context, node_name, node_namespace,
           demangle_topic, demangle_type, allocator, topic_names_and_types)

\* rmw_names_and_types_check_zero: a null container or one that holds anything
\* is an invalid argument; the function sets the error message itself
rmw_names_and_types_check_zero(names_and_types) ==
  IF IsNull(names_and_types)
    THEN [ret |-> RMW_RET_INVALID_ARGUMENT, msg |-> <<"names_and_types is null">>]
  ELSE IF Deref(names_and_types) # {}
    THEN [ret |-> RMW_RET_INVALID_ARGUMENT, msg |-> <<"names array is not zeroed">>]
  ELSE [ret |-> RMW_RET_OK, msg |-> <<>>]

\* __validate_input without the zero check of the output container (lines 82-85)
__validate_input_NoZeroCheck(identifier, node, allocator, node_name, node_namespace, topic_names_and_types) ==
  IF IsNull(allocator)
    THEN [ret |-> RMW_RET_INVALID_ARGUMENT, msg |-> <<"allocator is null">>]
  ELSE IF IsNull(node)
    THEN [ret |-> RMW_RET_INVALID_ARGUMENT, msg |-> <<"null node handle">>]
  ELSE IF IsNull(node_name)
    THEN [ret |-> RMW_RET_INVALID_ARGUMENT, msg |-> <<"null node name">>]
  ELSE IF IsNull(node_namespace)
    THEN [ret |-> RMW_RET_INVALID_ARGUMENT, msg |-> <<"null node namespace">>]
  ELSE IF Deref(node).implementation_identifier # identifier
    THEN [ret |-> RMW_RET_ERROR, msg |-> <<"node handle not from this implementation">>]
  ELSE [ret |-> RMW_RET_OK, msg |-> <<>>]

\* __validate_input that also rejects an empty node name or namespace
__validate_input_RejectsEmpty(identifier, node, allocator, node_name, node_namespace, topic_names_and_types) ==
  IF IsNull(allocator)
    THEN [ret |-> RMW_RET_INVALID_ARGUMENT, msg |-> <<"allocator is null">>]
  ELSE IF IsNull(node)
    THEN [ret |-> RMW_RET_INVALID_ARGUMENT, msg |-> <<"null node handle">>]
  ELSE IF IsNull(node_name) \/ strlen(Deref(node_name)) = 0
    THEN [ret |-> RMW_RET_INVALID_ARGUMENT, msg |-> <<"null node name">>]
  ELSE IF IsNull(node_namespace) \/ strlen(Deref(node_namespace)) = 0
    THEN [ret |-> RMW_RET_INVALID_ARGUMENT, msg |-> <<"null node namespace">>]
  ELSE IF rmw_names_and_types_check_zero(topic_names_and_types).ret # RMW_RET_OK
    THEN rmw_names_and_types_check_zero(topic_names_and_types)
  ELSE IF Deref(node).implementation_identifier # identifier
    THEN [ret |-> RMW_RET_ERROR, msg |-> <<"node handle not from this implementation">>]
  ELSE [ret |-> RMW_RET_OK, msg |-> <<>>]

\* __validate_input answering RMW_RET_INVALID_ARGUMENT for a node of another
\* implementation
__validate_input_WrongNodeInvalidArgument(identifier, node, allocator, node_name, node_namespace, topic_names_and_types) ==
  IF IsNull(allocator)
    THEN [ret |-> RMW_RET_INVALID_ARGUMENT, msg |-> <<"allocator is null">>]
  ELSE IF IsNull(node)
    THEN [ret |-> RMW_RET_INVALID_ARGUMENT, msg |-> <<"null node handle">>]
  ELSE IF IsNull(node_name)
    THEN [ret |-> RMW_RET_INVALID_ARGUMENT, msg |-> <<"null node name">>]
  ELSE IF IsNull(node_namespace)
    THEN [ret |-> RMW_RET_INVALID_ARGUMENT, msg |-> <<"null node namespace">>]
  ELSE IF rmw_names_and_types_check_zero(topic_names_and_types).ret # RMW_RET_OK
    THEN rmw_names_and_types_check_zero(topic_names_and_types)
  ELSE IF Deref(node).implementation_identifier # identifier
    THEN [ret |-> RMW_RET_INVALID_ARGUMENT,
          msg |-> <<"node handle not from this implementation">>]
  ELSE [ret |-> RMW_RET_OK, msg |-> <<>>]

\* __validate_input comparing the implementation identifiers before it checks
\* the output container
__validate_input_IdentifierFirst(identifier, node, allocator, node_name, node_namespace, topic_names_and_types) ==
  IF IsNull(allocator)
    THEN [ret |-> RMW_RET_INVALID_ARGUMENT, msg |-> <<"allocator is null">>]
  ELSE IF IsNull(node)
    THEN [ret |-> RMW_RET_INVALID_ARGUMENT, msg |-> <<"null node handle">>]
  ELSE IF IsNull(node_name)
    THEN [ret |-> RMW_RET_INVALID_ARGUMENT, msg |-> <<"null node name">>]
  ELSE IF IsNull(node_namespace)
    THEN [ret |-> RMW_RET_INVALID_ARGUMENT, msg |-> <<"null node namespace">>]
  ELSE IF Deref(node).implementation_identifier # identifier
    THEN [ret |-> RMW_RET_ERROR, msg |-> <<"node handle not from this implementation">>]
  ELSE IF rmw_names_and_types_check_zero(topic_names_and_types).ret # RMW_RET_OK
    THEN rmw_names_and_types_check_zero(topic_names_and_types)
  ELSE [ret |-> RMW_RET_OK, msg |-> <<>>]

\* lines 55-93
__validate_input(identifier, node, allocator, node_name, node_namespace, topic_names_and_types) ==
  IF IsNull(allocator)
    THEN [ret |-> RMW_RET_INVALID_ARGUMENT, msg |-> <<"allocator is null">>]
  ELSE IF IsNull(node)
    THEN [ret |-> RMW_RET_INVALID_ARGUMENT, msg |-> <<"null node handle">>]
  ELSE IF IsNull(node_name)
    THEN [ret |-> RMW_RET_INVALID_ARGUMENT, msg |-> <<"null node name">>]
  ELSE IF IsNull(node_namespace)
    THEN [ret |-> RMW_RET_INVALID_ARGUMENT, msg |-> <<"null node namespace">>]
  ELSE IF rmw_names_and_types_check_zero(topic_names_and_types).ret # RMW_RET_OK
    THEN rmw_names_and_types_check_zero(topic_names_and_types)
  ELSE IF Deref(node).implementation_identifier # identifier
    THEN [ret |-> RMW_RET_ERROR, msg |-> <<"node handle not from this implementation">>]
  ELSE [ret |-> RMW_RET_OK, msg |-> <<>>]

\* SelectDemanglers that overrides the name demangler only
SelectDemanglers_TopicOnly(demangle_topic, demangle_type, no_demangle) ==
  IF no_demangle
    THEN [demangle_topic |-> "_identity_demangle", demangle_type |-> demangle_type]
    ELSE [demangle_topic |-> demangle_topic, demangle_type |-> demangle_type]

\* lines 124-127: the demanglers handed to the index
SelectDemanglers(demangle_topic, demangle_type, no_demangle) ==
  IF no_demangle
    THEN [demangle_topic |-> "_identity_demangle", demangle_type |-> "_identity_demangle"]
    ELSE [demangle_topic |-> demangle_topic, demangle_type |-> demangle_type]

\* the dispatcher answering RMW_RET_ERROR for every failure of the accessor
__rmw_get_topic_names_and_types_by_node_ErrorOnFailure(identifier, node, allocator, node_name, node_namespace, demangle_topic, demangle_type, no_demangle, get_names_and_types_by_node_fn, topic_names_and_types) ==
  LET valid_input == __validate_input(identifier, node, allocator, node_name,
                                      node_namespace, topic_names_and_types)
      common_context == Deref(node).context
      d == SelectDemanglers(demangle_topic, demangle_type, no_demangle)
      r == CallAccessor(get_names_and_types_by_node_fn, common_context,
                        Deref(node_name), Deref(node_namespace),
                        d.demangle_topic, d.demangle_type, allocator,
                        topic_names_and_types)
  IN IF valid_input.ret # RMW_RET_OK
       THEN [ret |-> valid_input.ret, valid_input |-> valid_input.ret, calls |-> <<>>,
             out |-> topic_names_and_types, msg |-> valid_input.msg]
       ELSE [ret |-> IF r.ret = RMW_RET_OK THEN RMW_RET_OK ELSE RMW_RET_ERROR,
             valid_input |-> valid_input.ret,
             calls |-> << [accessor |-> get_names_and_types_by_node_fn,
                           demangle_topic |-> d.demangle_topic,
                           demangle_type |-> d.demangle_type,
                           node_name |-> Deref(node_name),
                           node_namespace |-> Deref(node_namespace)] >>,
             out |-> r.out,
             msg |-> r.msg]

\* lines 104-137: return code, what __validate_input answered, the accessor
\* calls made, the output container and the error message the call leaves in
\* the last-error slot (the dispatcher sets none itself after validation)
__rmw_get_topic_names_and_types_by_node(identifier, node, allocator, node_name, node_namespace, demangle_topic, demangle_type, no_demangle, get_names_and_types_by_node_fn, topic_names_and_types) ==
  LET valid_input == __validate_input(identifier, node, allocator, node_name,
                                      node_namespace, topic_names_and_types)
      common_context == Deref(node).context
      d == SelectDemanglers(demangle_topic, demangle_type, no_demangle)
      r == CallAccessor(get_names_and_types_by_node_fn, common_context,
                        Deref(node_name), Deref(node_namespace),
                        d.demangle_topic, d.demangle_type, allocator,
                        topic_names_and_types)
  IN IF valid_input.ret # RMW_RET_OK
       THEN [ret |-> valid_input.ret, valid_input |-> valid_input.ret, calls |-> <<>>,
             out |-> topic_names_and_types, msg |-> valid_input.msg]
       ELSE [ret |-> r.ret,
             valid_input |-> valid_input.ret,
             calls |-> << [accessor |-> get_names_and_types_by_node_fn,
                           demangle_topic |-> d.demangle_topic,
                           demangle_type |-> d.demangle_type,
                           node_name |-> Deref(node_name),
                           node_namespace |-> Deref(node_namespace)] >>,
             out |-> r.out,
             msg |-> r.msg]

\* lines 177-198
__rmw_get_subscriber_names_and_types_by_node(identifier, node, allocator, node_name, node_namespace, no_demangle, topic_names_and_types) ==
  __rmw_get_topic_names_and_types_by_node(identifier, node, allocator, node_name,
    node_namespace, "_demangle_ros_topic_from_topic", "_demangle_if_ros_type",
    no_demangle, "__get_reader_names_and_types_by_node", topic_names_and_types)

\* lines 200-221
__rmw_get_publisher_names_and_types_by_node(identifier, node, allocator, node_name, node_namespace, no_demangle, topic_names_and_types) ==
  __rmw_get_topic_names_and_types_by_node(identifier, node, allocator, node_name,
    node_namespace, "_demangle_ros_topic_from_topic", "_demangle_if_ros_type",
    no_demangle, "__get_writer_names_and_types_by_node", topic_names_and_types)

\* lines 223-243
__rmw_get_service_names_and_types_by_node(identifier, node, allocator, node_name, node_namespace, service_names_and_types) ==
  __rmw_get_topic_names_and_types_by_node(identifier, node, allocator, node_name,
    node_namespace, "_demangle_service_request_from_topic", "_demangle_service_type_only",
    FALSE, "__get_reader_names_and_types_by_node", service_names_and_types)

\* the client entry point with the request demangler of the service entry point
__rmw_get_client_names_and_types_by_node_AsService(identifier, node, allocator, node_name, node_namespace, service_names_and_types) ==
  __rmw_get_topic_names_and_types_by_node(identifier, node, allocator, node_name,
    node_namespace, "_demangle_service_request_from_topic", "_demangle_service_type_only",
    FALSE, "__get_reader_names_and_types_by_node", service_names_and_types)

\* lines 245-265
__rmw_get_client_names_and_types_by_node(identifier, node, allocator, node_name, node_namespace, service_names_and_types) ==
  __rmw_get_topic_names_and_types_by_node(identifier, node, allocator, node_name,
    node_namespace, "_demangle_service_reply_from_topic", "_demangle_service_type_only",
    FALSE, "__get_reader_names_and_types_by_node", service_names_and_types)

\* ---- arguments of the queries
NodeArgs ==
  { <<>> } \cup
  { <<[implementation_identifier |-> i, context |-> c]>> :
      i \in {eprosima_fastrtps_identifier, "rmw_fastrtps_dynamic_cpp"}, c \in Contexts }
AllocatorArgs == { <<>>, <<"rcutils_default_allocator">> }
NodeNameArgs == { NullStr, Str(<<>>), Str(<<"talker">>), Str(<<"listener">>) }
NodeNamespaceArgs == { NullStr, Str(<<>>), Str(<<"/">>) }
\* the output container: null, zero-initialized, or holding an entry already
ContainerArgs == { <<>>, <<{}>>, <<{<<<<"/", "stale">>, <<"Stale">>>>}>> }

QueryArgs ==
  [ node : NodeArgs, allocator : AllocatorArgs, node_name : NodeNameArgs,
    node_namespace : NodeNamespaceArgs, no_demangle : BOOLEAN,
    names_and_types : ContainerArgs ]

NoTriple == [demangle_topic |-> "", demangle_type |-> "", accessor |-> ""]

\* The caller is in one call at a time, and the queries neither read nor write
\* what create_subscription works on: they are taken before the first
\* create_subscription call, which keeps the two sets of calls from multiplying.
NoCallYet == ncalls = 0 /\ \A t \in Threads : pc[t] = "idle"

\* the record a query leaves: what it was given and what came of it
QueryDone(entry, q, given, r) ==
  /\ query' = [entry |-> entry, args |-> q, given |-> given,
               ret |-> r.ret, valid_input |-> r.valid_input,
               calls |-> r.calls, out |-> r.out, msg |-> r.msg]
  /\ last_error' = IF r.msg = <<>> THEN last_error ELSE r.msg
  /\ UNCHANGED creation

GetSubscriberNamesAndTypesByNode ==
  /\ query = NoQuery
  /\ NoCallYet
  /\ \E q \in QueryArgs :
       QueryDone("subscribers", q, NoTriple,
         __rmw_get_subscriber_names_and_types_by_node(eprosima_fastrtps_identifier,
           q.node, q.allocator, q.node_name, q.node_namespace, q.no_demangle,
           q.names_and_types))

GetPublisherNamesAndTypesByNode ==
  /\ query = NoQuery
  /\ NoCallYet
  /\ \E q \in QueryArgs :
       QueryDone("publishers", q, NoTriple,
         __rmw_get_publisher_names_and_types_by_node(eprosima_fastrtps_identifier,
           q.node, q.allocator, q.node_name, q.node_namespace, q.no_demangle,
           q.names_and_types))

\* the service and client entry points take no no_demangle argument
ServiceQueryArgs == { q \in QueryArgs : q.no_demangle = FALSE }

GetServiceNamesAndTypesByNode ==
  /\ query = NoQuery
  /\ NoCallYet
  /\ \E q \in ServiceQueryArgs :
       QueryDone("services", q, NoTriple,
         __rmw_get_service_names_and_types_by_node(eprosima_fastrtps_identifier,
           q.node, q.allocator, q.node_name, q.node_namespace, q.names_and_types))

GetClientNamesAndTypesByNode ==
  /\ query = NoQuery
  /\ NoCallYet
  /\ \E q \in ServiceQueryArgs :
       QueryDone("clients", q, NoTriple,
         __rmw_get_client_names_and_types_by_node(eprosima_fastrtps_identifier,
           q.node, q.allocator, q.node_name, q.node_namespace, q.names_and_types))

\* the (name demangler, type demangler, accessor) triples the dispatcher is called with
Triples ==
  { [demangle_topic |-> "_demangle_ros_topic_from_topic",
     demangle_type |-> "_demangle_if_ros_type",
     accessor |-> "__get_reader_names_and_types_by_node"],
    [demangle_topic |-> "_demangle_ros_topic_from_topic",
     demangle_type |-> "_demangle_if_ros_type",
     accessor |-> "__get_writer_names_and_types_by_node"],
    [demangle_topic |-> "_demangle_service_request_from_topic",
     demangle_type |-> "_demangle_service_type_only",
     accessor |-> "__get_reader_names_and_types_by_node"],
    [demangle_topic |-> "_demangle_service_reply_from_topic",
     demangle_type |-> "_demangle_service_type_only",
     accessor |-> "__get_reader_names_and_types_by_node"] }

\* the dispatcher called for itself, with any of the triples and either value
\* of no_demangle
GetTopicNamesAndTypesByNode ==
  /\ query = NoQuery
  /\ NoCallYet
  /\ \E q \in QueryArgs, tri \in Triples :
       QueryDone("dispatcher", q, tri,
         __rmw_get_topic_names_and_types_by_node(eprosima_fastrtps_identifier,
           q.node, q.allocator, q.node_name, q.node_namespace,
           tri.demangle_topic, tri.demangle_type, q.no_demangle, tri.accessor,
           q.names_and_types))

\* the caller takes the result, reads and clears the last-error slot
QueryReturn ==
  /\ query # NoQuery
  /\ query' = NoQuery
  /\ last_error' = <<>>
  /\ UNCHANGED creation

QueryNext ==
  \/ QueryReturn
  \/ GetSubscriberNamesAndTypesByNode
  \/ GetPublisherNamesAndTypesByNode
  \/ GetServiceNamesAndTypesByNode
  \/ GetClientNamesAndTypesByNode
  \/ GetTopicNamesAndTypesByNode

QuerySpec == Init /\ [][QueryNext]_vars

\* one caller making graph queries and create_subscription calls
ApiNext == Next \/ QueryNext

ApiSpec == Init /\ [][ApiNext]_vars

\* ---------------------------------------------------------------- properties
InCall(t) == pc[t] \notin {"idle", "returned"}

\* the wire type name of a metadata record
TypeNameOf(info) == _create_type_name(info.type_support_impl_)

\* C1: a create_subscription call whose type lookup was a cache hit and that
\* then fails does not delete the registered adapter: the fail label leaves
\* every adapter as it was.
C1_HitAdapterSurvivesFail ==
  [][\A t \in Threads :
       (pc[t] = "fail" /\ loc[t].hit = "hit" /\ pc'[t] = "returned")
         => adapters' = adapters]_vars

\* C2: when a create_subscription call returns null, nothing the call
\* allocated is live: not its metadata record, its listener, its transport
\* reader or its handle.
C2_FailedCallLeavesNothing ==
  \A t \in Threads :
    (pc[t] = "returned" /\ loc[t].result = NullPtr)
      => /\ infos[loc[t].id].state # "live"
         /\ listeners[loc[t].id] # "live"
         /\ readers[loc[t].id].state # "live"
         /\ handles[loc[t].id].state # "live"

\* C3: every type name the registry reports as registered maps to an adapter
\* that has not been deleted, and every returned subscription entity borrows a
\* live adapter.
C3_RegistryConsistent ==
  /\ \A n \in TypeNames :
       registry[n] # NullPtr => adapters[registry[n]] = "live"
  /\ \A t \in Threads :
       (pc[t] = "returned" /\ loc[t].result # NullPtr)
         => adapters[infos[handles[loc[t].result].data].type_support_] = "live"

\* C4: with calls following one another, an adapter is constructed and
\* registered at most once per type name, and all metadata records of one type
\* name reference the same adapter.
C4_RegisteredOnce ==
  /\ \A n \in TypeNames : constructed[n] <= 1 /\ registered[n] <= 1
  /\ \A i, j \in Ids :
       ( /\ infos[i].state = "live" /\ infos[j].state = "live"
         /\ TypeNameOf(infos[i]) = TypeNameOf(infos[j])
         /\ infos[i].type_support_ # NullPtr /\ infos[j].type_support_ # NullPtr )
         => infos[i].type_support_ = infos[j].type_support_

\* C5: two concurrent calls for a type name that was never registered do not
\* both observe a miss and both construct an adapter.
C5_LookupRegisterSerialized ==
  \A t, u \in Threads :
    ( /\ t # u /\ InCall(t) /\ InCall(u)
      /\ loc[t].type_name = loc[u].type_name
      /\ loc[t].hit = "miss" /\ loc[u].hit = "miss"
      /\ \A i \in Ids : adapters[i] # "deleted" )
      => ~(adapters[loc[t].id] = "live" /\ adapters[loc[u].id] = "live")

\* C6: a call given an invalid input (null or empty topic name, null QoS, null
\* options, null participant info, null participant handle, no recognized type
\* support, QoS failing the validity check) returns null at once: no metadata
\* record, adapter, listener, reader or handle is created and the registry is
\* unchanged.
C6_InvalidInputRejected ==
  [][\A t \in Threads :
       (pc[t] = "idle" /\ pc'[t] # "idle" /\ loc'[t].invalid # {})
         => /\ pc'[t] = "returned"
            /\ loc'[t].result = NullPtr
            /\ loc'[t].info = NullPtr
            /\ loc'[t].rmw_subscription = NullPtr
            /\ UNCHANGED <<adapters, infos, listeners, readers, handles,
                           registry, constructed, registered>>]_vars

\* a call rejected for its QoS, made after an earlier call left a live entity
C6_Witness ==
  \E t \in Threads :
    /\ pc[t] = "returned"
    /\ loc[t].invalid = {"is_valid_qos"}
    /\ \E i \in Ids : handles[i].state = "live" /\ readers[i].state = "live"

\* ---- graph queries
\* What is wrong with the arguments of a query, each condition on its own.
InvalidQueryInputs(q) ==
  { r \in { "allocator", "node", "node_name", "node_namespace", "not_zero",
           "implementation" } :
      \/ r = "allocator" /\ IsNull(q.allocator)
      \/ r = "node" /\ IsNull(q.node)
      \/ r = "node_name" /\ IsNull(q.node_name)
      \/ r = "node_namespace" /\ IsNull(q.node_namespace)
      \/ r = "not_zero" /\ ~IsNull(q.names_and_types) /\ Deref(q.names_and_types) # {}
      \/ r = "implementation" /\ ~IsNull(q.node)
           /\ Deref(q.node).implementation_identifier # eprosima_fastrtps_identifier }

ValidQuery(q) == InvalidQueryInputs(q) = {} /\ ~IsNull(q.names_and_types)

EntryPoints == {"subscribers", "publishers", "services", "clients"}

Asked == query.entry # "none"

\* C7: a query whose input validation fails (null allocator, null node, null
\* node name, null node namespace, non-zero output container, node of another
\* implementation) returns a non-OK code, invokes no index accessor and leaves
\* the output container as it was.
C7_InvalidQueryRejected ==
  (Asked /\ InvalidQueryInputs(query.args) # {})
    => /\ query.ret # RMW_RET_OK
       /\ query.calls = <<>>
       /\ query.out = query.args.names_and_types

\* a services query given an output container that already holds an entry, all
\* else valid and the node known to the index
C7_Witness ==
  /\ Asked
  /\ query.entry = "services"
  /\ InvalidQueryInputs(query.args) = {"not_zero"}
  /\ query.args.node_name = Str(<<"talker">>)
  /\ query.args.node_namespace = Str(<<"/">>)
  /\ query.ret = RMW_RET_INVALID_ARGUMENT

\* C8 as stated: a query whose node name or node namespace is the empty string
\* is rejected with a failure code and the index is not consulted.
C8_EmptyNameRejected ==
  (Asked /\ (query.args.node_name = Str(<<>>) \/ query.args.node_namespace = Str(<<>>)))
    => query.ret # RMW_RET_OK /\ query.calls = <<>>

\* C8 as amended: a query whose node name or node namespace is null is rejected
\* with RMW_RET_INVALID_ARGUMENT and the index is not consulted; an empty node
\* name or namespace passes input validation and the index is consulted with it.
C8_NullNameRejected ==
  Asked =>
    /\ (IsNull(query.args.node_name) \/ IsNull(query.args.node_namespace))
         => query.ret = RMW_RET_INVALID_ARGUMENT /\ query.calls = <<>>
    /\ ( /\ ValidQuery(query.args)
         /\ (query.args.node_name = Str(<<>>) \/ query.args.node_namespace = Str(<<>>)) )
         => /\ Len(query.calls) = 1
            /\ query.calls[1].node_name = Deref(query.args.node_name)
            /\ query.calls[1].node_namespace = Deref(query.args.node_namespace)

\* a query with a null node name and one with an empty node name, all else valid
C8_Witness ==
  /\ Asked
  /\ query.entry = "subscribers"
  /\ query.args.node_name = Str(<<>>)
  /\ query.args.node_namespace = Str(<<"/">>)
  /\ ValidQuery(query.args)
  /\ Len(query.calls) = 1

\* the entries of the index side an accessor reads
SideOf(accessor, graph_cache) ==
  IF accessor = "__get_writer_names_and_types_by_node"
    THEN graph_cache.writers ELSE graph_cache.readers

\* C9: with no_demangle set and valid input, the identity demangler is handed
\* to the index for both names and types, and the names and types returned are
\* the raw ones of the index, for every triple the dispatcher is called with.
C9_NoDemangleIdentity ==
  (Asked /\ query.args.no_demangle /\ ValidQuery(query.args))
    => /\ Len(query.calls) = 1
       /\ query.calls[1].demangle_topic = "_identity_demangle"
       /\ query.calls[1].demangle_type = "_identity_demangle"
       /\ query.ret = RMW_RET_OK
            => query.out =
                 << { <<e.topic, e.type>> :
                        e \in { x \in SideOf(query.calls[1].accessor,
                                             Deref(query.args.node).context.graph_cache) :
                                  x.node = <<Deref(query.args.node_name),
                                             Deref(query.args.node_namespace)>> } } >>

\* the dispatcher called with the service-request triple and no_demangle set,
\* returning the raw reader names of a node that has some
C9_Witness ==
  /\ Asked
  /\ query.args.no_demangle
  /\ ValidQuery(query.args)
  /\ query.given.demangle_topic = "_demangle_service_request_from_topic"
  /\ query.ret = RMW_RET_OK
  /\ <<<<"rq", "/", "add_two_ints", "Request">>, request_type>> \in Deref(query.out)

\* C10: the triple each entry point uses, as the claim lists them
CategoryTriple(entry) ==
  CASE entry = "subscribers" ->
         [accessor |-> "__get_reader_names_and_types_by_node",
          demangle_topic |-> "_demangle_ros_topic_from_topic",
          demangle_type |-> "_demangle_if_ros_type"]
    [] entry = "publishers" ->
         [accessor |-> "__get_writer_names_and_types_by_node",
          demangle_topic |-> "_demangle_ros_topic_from_topic",
          demangle_type |-> "_demangle_if_ros_type"]
    [] entry = "services" ->
         [accessor |-> "__get_reader_names_and_types_by_node",
          demangle_topic |-> "_demangle_service_request_from_topic",
          demangle_type |-> "_demangle_service_type_only"]
    [] entry = "clients" ->
         [accessor |-> "__get_reader_names_and_types_by_node",
          demangle_topic |-> "_demangle_service_reply_from_topic",
          demangle_type |-> "_demangle_service_type_only"]

\* C10: with valid input and no_demangle unset, each entry point invokes
\* exactly one accessor, once, with the triple of its category.
C10_TripleByCategory ==
  (Asked /\ query.entry \in EntryPoints /\ ~query.args.no_demangle /\ ValidQuery(query.args))
    => /\ Len(query.calls) = 1
       /\ query.calls[1].accessor = CategoryTriple(query.entry).accessor
       /\ query.calls[1].demangle_topic = CategoryTriple(query.entry).demangle_topic
       /\ query.calls[1].demangle_type = CategoryTriple(query.entry).demangle_type

\* a clients query of a known node: the reply topics of the reader side, demangled
C10_Witness ==
  /\ Asked
  /\ query.entry = "clients"
  /\ ValidQuery(query.args)
  /\ query.ret = RMW_RET_OK
  /\ query.out = << { << <<"/", "sum">>, <<"example_interfaces", "/", "srv", "/", "AddTwoInts">> >> } >>

\* ---- the returned entity
\* thread t's call has returned a non-null handle
ReturnedEntity(t) == pc[t] = "returned" /\ loc[t].result # NullPtr

\* C11: whenever create_subscription returns a non-null handle the entity is
\* fully populated: its transport reader is present, its adapter is the one
\* the participant has registered for its type name, its listener is present
\* exactly when create_subscription_listener was true, the handle carries the
\* requested topic name, the passed options and this implementation's
\* identifier; no entity with a listener and no reader is returned.
C11_ReturnedEntityPopulated ==
  \A t \in Threads :
    ReturnedEntity(t) =>
      LET h == handles[loc[t].result]
          info == infos[h.data]
      IN /\ h.state = "live" /\ info.state = "live"
         /\ info.subscriber_ # NullPtr /\ readers[info.subscriber_].state = "live"
         /\ info.type_support_ # NullPtr
         /\ info.type_support_ = registry[TypeNameOf(info)]
         /\ (info.listener_ # NullPtr) <=> loc[t].args.create_subscription_listener
         /\ info.listener_ # NullPtr => listeners[info.listener_] = "live"
         /\ readers[info.subscriber_].listener = info.listener_
         /\ h.topic_name = loc[t].args.topic_name
         /\ h.options = loc[t].args.subscription_options
         /\ h.implementation_identifier = eprosima_fastrtps_identifier

\* ---- query input validation
NullQueryInputs == {"allocator", "node", "node_name", "node_namespace"}

\* the node of the query is of another implementation
WrongImplementation(q) == "implementation" \in InvalidQueryInputs(q)

\* the output container of the query is there and zero-initialized
ZeroContainer(q) == ~IsNull(q.names_and_types) /\ Deref(q.names_and_types) = {}

\* C12: query input validation answers RMW_RET_INVALID_ARGUMENT when any of
\* allocator, node, node name or node namespace is null; RMW_RET_ERROR when
\* those are non-null, the output container is zero-initialized and the node
\* is of another implementation; RMW_RET_OK only when all inputs are valid.
C12_ValidateInputCodes ==
  Asked =>
    /\ InvalidQueryInputs(query.args) \cap NullQueryInputs # {}
         => query.valid_input = RMW_RET_INVALID_ARGUMENT
    /\ ( /\ InvalidQueryInputs(query.args) \cap NullQueryInputs = {}
         /\ ZeroContainer(query.args)
         /\ WrongImplementation(query.args) )
         => query.valid_input = RMW_RET_ERROR
    /\ query.valid_input = RMW_RET_OK => ValidQuery(query.args)
    /\ query.valid_input # RMW_RET_OK => query.ret = query.valid_input

\* a publishers query given the node of another implementation, all else valid
C12_Witness ==
  /\ Asked
  /\ query.entry = "publishers"
  /\ InvalidQueryInputs(query.args) = {"implementation"}
  /\ ZeroContainer(query.args)
  /\ query.valid_input = RMW_RET_ERROR
  /\ query.ret = RMW_RET_ERROR

\* C13 as stated: a query given a node handle of another implementation fails
\* with RMW_RET_INVALID_ARGUMENT, the code of null inputs and of an output
\* container that is not zero-initialized.
C13_WrongImplementationInvalidArgument ==
  (Asked /\ WrongImplementation(query.args)) => query.ret = RMW_RET_INVALID_ARGUMENT

\* C13 as amended: a query given a node handle of another implementation, all
\* other inputs valid, fails with RMW_RET_ERROR, which no null input and no
\* non-zero output container produces; when another input is null or the
\* output container is not zero-initialized as well, that check comes first
\* and the query fails with RMW_RET_INVALID_ARGUMENT.  The index is consulted
\* in neither case.
C13_WrongImplementationError ==
  Asked =>
    /\ (WrongImplementation(query.args) /\ InvalidQueryInputs(query.args) = {"implementation"}
          /\ ZeroContainer(query.args))
         => query.ret = RMW_RET_ERROR /\ query.calls = <<>>
    /\ (WrongImplementation(query.args)
          /\ ~(InvalidQueryInputs(query.args) = {"implementation"} /\ ZeroContainer(query.args)))
         => query.ret = RMW_RET_INVALID_ARGUMENT /\ query.calls = <<>>
    /\ (~WrongImplementation(query.args) /\ ~ValidQuery(query.args))
         => query.ret = RMW_RET_INVALID_ARGUMENT

\* a clients query given the node of another implementation, a known node name
\* and a zero-initialized container: RMW_RET_ERROR, the container untouched
C13_Witness ==
  /\ Asked
  /\ query.entry = "clients"
  /\ WrongImplementation(query.args)
  /\ InvalidQueryInputs(query.args) = {"implementation"}
  /\ ZeroContainer(query.args)
  /\ query.args.node_name = Str(<<"talker">>)
  /\ query.ret = RMW_RET_ERROR
  /\ query.out = <<{}>>

\* ---- the order of the steps of one call
\* the type of thread t's call has been looked up and, on a miss, registered
TypeResolved(t) ==
  /\ loc[t].hit # "unknown"
  /\ infos[loc[t].info].type_support_ # NullPtr
  /\ registry[loc[t].type_name] # NullPtr
  /\ loc[t].hit = "miss" => adapters[loc[t].id] # "none"

\* the QoS of thread t's call has been translated into reader attributes
QosTranslated(t) ==
  /\ loc[t].subscriberParam # <<>>
  /\ get_datareader_qos(Deref(loc[t].args.qos_policies))

\* a step of thread t's call has failed
StepFailed(t) == loc[t].failed_at # ""

\* C15: within one create_subscription call the steps come in a fixed order
\* and none runs after an earlier one failed: the QoS is translated only after
\* the type was looked up and, on a miss, registered; the listener is
\* constructed only after the QoS was translated; the transport reader is
\* created only after the type is registered, the QoS translated and the
\* listener, when asked for, constructed; the handle is allocated only after
\* the reader exists; after a failed step the call constructs nothing more.
\* Stated of every step a call takes.
C15_StepsInOrder ==
  [][\A t \in Threads :
       (InCall(t) /\ pc'[t] # pc[t]) =>
         LET id == loc[t].id
         IN /\ (loc[t].subscriberParam = <<>> /\ loc'[t].subscriberParam # <<>>)
                 => TypeResolved(t)
            /\ (listeners[id] = "none" /\ listeners'[id] = "live")
                 => TypeResolved(t) /\ QosTranslated(t) /\ ~StepFailed(t)
            /\ (readers[id].state = "none" /\ readers'[id].state = "live")
                 => /\ TypeResolved(t) /\ QosTranslated(t) /\ ~StepFailed(t)
                    /\ loc[t].args.create_subscription_listener
                         => listeners[id] = "live" /\ infos[loc[t].info].listener_ = id
            /\ (handles[id].state = "none" /\ handles'[id].state = "live")
                 => /\ readers[id].state = "live" /\ ~StepFailed(t)
                    /\ infos[loc[t].info].subscriber_ = id
            /\ StepFailed(t)
                 => /\ pc[t] = "fail"
                    /\ \A i \in Ids :
                         /\ adapters'[i] = "live" => adapters[i] = "live"
                         /\ listeners'[i] = "live" => listeners[i] = "live"
                         /\ readers'[i] = readers[i]
                         /\ handles'[i].state = "live" => handles[i].state = "live"
                    /\ registry' = registry]_vars

\* a call that missed the registry, registered its adapter, translated its
\* QoS, constructed its listener, created its reader and returned its handle
C15_Witness ==
  \E t \in Threads :
    /\ ReturnedEntity(t)
    /\ loc[t].hit = "miss"
    /\ loc[t].args.create_subscription_listener
    /\ listeners[loc[t].id] = "live"
    /\ readers[loc[t].id].state = "live"
    /\ handles[loc[t].id].state = "live"

\* ---- what a query that passed validation returns
\* what the index answers to the accessor call a query made
IndexAnswer(q, call) ==
  get_names_and_types_by_node(SideOf(call.accessor, Deref(q.node).context.graph_cache),
                              Deref(q.node).context, call.node_name, call.node_namespace,
                              call.demangle_topic, call.demangle_type, q.names_and_types)

\* C16: when input validation passes, the query returns exactly the return
\* code of the index accessor it selected (RMW_RET_OK or the failure of the
\* index) and the output container exactly as the index left it; the
\* dispatcher adds no failure of its own.
C16_AccessorResultPropagated ==
  (Asked /\ query.valid_input = RMW_RET_OK)
    => /\ Len(query.calls) = 1
       /\ query.ret = IndexAnswer(query.args, query.calls[1]).ret
       /\ query.out = IndexAnswer(query.args, query.calls[1]).out

\* a subscribers query with valid input to which the index answers with a
\* failure of its own, leaving the container zero-initialized
C16_Witness ==
  /\ Asked
  /\ query.entry = "subscribers"
  /\ query.valid_input = RMW_RET_OK
  /\ query.args.node_name = Str(<<"talker">>)
  /\ query.ret = "RMW_RET_BAD_ALLOC"
  /\ query.out = <<{}>>

\* ---- what a live reader refers to
\* C17: in every reachable state, also after a failed create_subscription, no
\* live transport reader refers to a listener or to a metadata record that
\* has been deleted (a reader refers to its listener, and the listener to the
\* metadata record it was constructed with).
C17_LiveReaderRefsLive ==
  \A i \in Ids :
    (readers[i].state = "live" /\ readers[i].listener # NullPtr)
      => /\ listeners[readers[i].listener] = "live"
         /\ infos[readers[i].listener].state = "live"

====
